---------------------------- MODULE Spec2Model ----------------------------
(***************************************************************************)
(* A model of include/swift/ABI/Task.h: the ABI structures for             *)
(* asynchronous tasks (Job, ActiveTaskStatus, AsyncTask, ChildFragment,    *)
(* AsyncContext).                                                          *)
(*                                                                         *)
(* Four specifications share the module, one per part of the header:       *)
(*   SpecStatus   the packed ActiveTaskStatus word and records()           *)
(*   SpecLock     the lock / cancel protocol on AsyncTask::Status          *)
(*   SpecTask     construction, layout and dispatch of Job and AsyncTask   *)
(*   SpecContext  the chain of AsyncContext frames                         *)
(* Each one leaves the variables of the other parts at their idle values.  *)
(***************************************************************************)
EXTENDS Integers, Sequences, FiniteSets

VARIABLES
    \* ---- SpecStatus
    heap,       \* TaskStatusRecord address -> address of its parent record
    arg,        \* the arguments given to ActiveTaskStatus(record, cancelled, locked)
    Value,      \* ActiveTaskStatus::Value, the packed word
    got,        \* what the three accessors returned, or <<>> before they are read
    it,         \* the record_iterator's current record
    seen,       \* the records the iteration has produced so far, in order
    spc,        \* where the status scenario stands
    \* ---- SpecLock
    Status,     \* AsyncTask::Status, the task's atomic ActiveTaskStatus word
    apc,        \* actor -> where it stands in its operation on Status
    snap,       \* actor -> the status it loaded last (the expected value of its CAS)
    raised,     \* a cancellation was raised while the lock bit was set
    released,   \* the lock was released after such a cancellation
    \* ---- SpecTask
    ptrSize,    \* sizeof(void*) of the platform, in bytes
    objs,       \* address -> the Job or AsyncTask constructed there
    frags,      \* address -> the ChildFragment constructed there
    fragOf,     \* task -> what childFragment() returned and the parent given
    attempt,    \* the arguments of the last constructor call
    ran,        \* the last Job::run: the Job* and the executor, or <<>>
    calls,      \* the calls that run made, in order
    aborted,    \* the assertion that failed, or "no"
    \* ---- SpecContext
    frames,     \* address -> the AsyncContext constructed there
    order,      \* the frames in the order they were constructed, as given
    cur,        \* the frame whose work is done next
    resumed,    \* the resume functions called so far, in order
    cphase      \* building | resuming

statusVars == <<heap, arg, Value, got, it, seen, spc>>
lockVars == <<Status, apc, snap, raised, released>>

taskVars == <<ptrSize, objs, frags, fragOf, attempt, ran, calls, aborted>>
ctxVars == <<frames, order, cur, resumed, cphase>>

vars == <<statusVars, lockVars, taskVars, ctxVars>>

otherThanStatus == <<lockVars, taskVars, ctxVars>>
otherThanLock == <<statusVars, taskVars, ctxVars>>
otherThanTask == <<statusVars, lockVars, ctxVars>>
otherThanContext == <<statusVars, lockVars, taskVars>>

(***************************************************************************)
(* Bounds of the model.                                                    *)
(***************************************************************************)
\* uintptr_t is modelled as a word of WordBits bits.
WordBits == 5
\* The number of TaskStatusRecords that exist.
MaxRecords == 3
\* The number of actors (threads) that work on one task's Status.
NumActors == 2
\* The number of records the holders of the lock push and pop.
NumLockRecords == 1
\* The number of Jobs and AsyncTasks that are constructed.
MaxObjects == 2
\* The number of AsyncContext frames of a chain.
MaxFrames == 3

(***************************************************************************)
(* Words and bits.                                                         *)
(***************************************************************************)
NULL == 0

RECURSIVE Pow2(_)
Pow2(n) == IF n = 0 THEN 1 ELSE 2 * Pow2(n - 1)

\* The number of values of a uintptr_t.
Word == Pow2(WordBits)

Words == 0 .. (Word - 1)

\* a & b on words, bit by bit.
RECURSIVE BitAnd(_, _)
BitAnd(a, b) ==
    IF a = 0 \/ b = 0 THEN 0
    ELSE (IF a % 2 = 1 /\ b % 2 = 1 THEN 1 ELSE 0) + 2 * BitAnd(a \div 2, b \div 2)

\* ~a on a word.
BitNot(a) == (Word - 1) - a

(***************************************************************************)
(* class ActiveTaskStatus                                                  *)
(***************************************************************************)
IsCancelled == 1
IsLocked == 2
RecordMask == BitNot(IsCancelled + IsLocked)

\* A mutant of the constructor: the cancelled flag is not packed.
ActiveTaskStatusDropsCancelled(innermostRecord, cancelled, locked) ==
    (innermostRecord + (IF locked THEN IsLocked ELSE 0)) % Word

\* A mutant of the constructor: the two flags go to each other's bit.
ActiveTaskStatusSwapsFlags(innermostRecord, cancelled, locked) ==
    (innermostRecord
        + (IF locked THEN IsCancelled ELSE 0)
        + (IF cancelled THEN IsLocked ELSE 0)) % Word

\* ActiveTaskStatus(TaskStatusRecord *innermostRecord, bool cancelled, bool locked)
ActiveTaskStatus(innermostRecord, cancelled, locked) ==
    (innermostRecord
        + (IF locked THEN IsLocked ELSE 0)
        + (IF cancelled THEN IsCancelled ELSE 0)) % Word

isCancelled(v) == BitAnd(v, IsCancelled) # 0

\* A mutant of isLocked: it tests the cancelled bit.
isLockedTestsCancelled(v) == BitAnd(v, IsCancelled) # 0

isLocked(v) == BitAnd(v, IsLocked) # 0

\* A mutant of getInnermostRecord: the flag bits are not masked off.
getInnermostRecordUnmasked(v) == v

getInnermostRecord(v) == BitAnd(v, RecordMask)

(***************************************************************************)
(* TaskStatusRecords: an intrusive singly-linked list through the parent   *)
(* link.  A record's address has its two low bits clear.                   *)
(***************************************************************************)
RecordAddrs == { 4 * i : i \in 1 .. MaxRecords }

\* The record n parent links away from r, NULL once the list has ended.
RECURSIVE Ancestor(_, _, _)
Ancestor(h, r, n) ==
    IF r = NULL \/ n = 0 THEN r ELSE Ancestor(h, h[r], n - 1)

\* Every list of h ends in null.
WellFormed(h) == \A r \in DOMAIN h : Ancestor(h, r, Cardinality(DOMAIN h)) = NULL

\* static TaskStatusRecord *getStatusRecordParent(TaskStatusRecord *ptr)
getStatusRecordParent(ptr) == heap[ptr]

(***************************************************************************)
(* SpecStatus: a status is constructed, read back and iterated.            *)
(***************************************************************************)
InitStatus ==
    /\ heap \in { h \in [RecordAddrs -> RecordAddrs \cup {NULL}] : WellFormed(h) }
    /\ arg \in [innermostRecord : Words, cancelled : BOOLEAN, locked : BOOLEAN]
    /\ Value = 0                \* constexpr ActiveTaskStatus() : Value(0)
    /\ got = <<>>
    /\ it = NULL
    /\ seen = <<>>
    /\ spc = "default"

IdleStatus ==
    /\ heap = << >>
    /\ arg = [innermostRecord |-> NULL, cancelled |-> FALSE, locked |-> FALSE]
    /\ Value = 0
    /\ got = <<>>
    /\ it = NULL
    /\ seen = <<>>
    /\ spc = "idle"

\* The three-argument constructor.
Construct ==
    /\ spc = "default"
    /\ Value' = ActiveTaskStatus(arg.innermostRecord, arg.cancelled, arg.locked)
    /\ spc' = "built"
    /\ UNCHANGED <<heap, arg, got, it, seen>>
    /\ UNCHANGED otherThanStatus

\* getInnermostRecord(), isCancelled(), isLocked() on the constructed status.
ReadBack ==
    /\ spc = "built"
    /\ got = <<>>
    /\ got' = <<getInnermostRecord(Value), isCancelled(Value), isLocked(Value)>>
    /\ UNCHANGED <<heap, arg, Value, it, seen, spc>>
    /\ UNCHANGED otherThanStatus

\* records(): record_iterator::rangeBeginning(getInnermostRecord()).  The
\* status must have been given a record that exists, or null.
RecordsBegin ==
    /\ spc = "built"
    /\ arg.innermostRecord \in RecordAddrs \cup {NULL}
    /\ it' = getInnermostRecord(Value)
    /\ seen' = <<>>
    /\ spc' = "iterating"
    /\ UNCHANGED <<heap, arg, Value, got>>
    /\ UNCHANGED otherThanStatus

\* One step of the range-for: *it, then ++it (it = getStatusRecordParent(it)).
RecordsNext ==
    /\ spc = "iterating"
    /\ it \in DOMAIN heap
    /\ seen' = Append(seen, it)
    /\ it' = getStatusRecordParent(it)
    /\ UNCHANGED <<heap, arg, Value, got, spc>>
    /\ UNCHANGED otherThanStatus

\* it == end(): the iteration is over.
RecordsEnd ==
    /\ spc = "iterating"
    /\ it = NULL
    /\ spc' = "end"
    /\ UNCHANGED <<heap, arg, Value, got, it, seen>>
    /\ UNCHANGED otherThanStatus

NextStatus ==
    \/ Construct
    \/ ReadBack
    \/ RecordsBegin
    \/ RecordsNext
    \/ RecordsEnd

(***************************************************************************)
(* SpecLock: the protocol every mutator of AsyncTask::Status follows.      *)
(* Each operation is a load of the word followed by a compare-and-swap of  *)
(* the whole word; a failed compare-and-swap leaves the current value in   *)
(* the expected value, as compare_exchange does.                           *)
(***************************************************************************)
Actors == 1 .. NumActors

LockRecordAddrs == { 4 * i : i \in 1 .. NumLockRecords }

\* The actors that hold the lock: their acquiring CAS succeeded and their
\* releasing CAS has not.
Holders == { a \in Actors : apc[a] \in {"holding", "mutating", "unlockLoaded"} }

InitLock ==
    /\ Status = 0              \* Status(ActiveTaskStatus())
    /\ apc = [a \in Actors |-> "idle"]
    /\ snap = [a \in Actors |-> 0]
    /\ raised = FALSE
    /\ released = FALSE

IdleLock ==
    /\ Status = 0
    /\ apc = << >>
    /\ snap = << >>
    /\ raised = FALSE
    /\ released = FALSE

\* Status.load(): the first step of acquiring, releasing and cancelling.
Load(a, next) ==
    /\ snap' = [snap EXCEPT ![a] = Status]
    /\ apc' = [apc EXCEPT ![a] = next]

\* Status.compare_exchange(snap[a], desired): TRUE when it stored.
CompareExchange(a, desired) ==
    IF Status = snap[a]
    THEN /\ Status' = desired
         /\ snap' = [snap EXCEPT ![a] = 0]
    ELSE /\ Status' = Status
         /\ snap' = [snap EXCEPT ![a] = Status]

\* An actor starts to acquire the lock.
LockLoad(a) ==
    /\ apc[a] = "idle"
    /\ Load(a, "lockLoaded")
    /\ UNCHANGED <<Status, raised, released>>
    /\ UNCHANGED otherThanLock

\* The snapshot is locked: the attempt fails.
LockBusy(a) ==
    /\ apc[a] = "lockLoaded"
    /\ isLocked(snap[a])
    /\ apc' = [apc EXCEPT ![a] = "idle"]
    /\ snap' = [snap EXCEPT ![a] = 0]
    /\ UNCHANGED <<Status, raised, released>>
    /\ UNCHANGED otherThanLock

\* CAS from the unlocked snapshot to the same snapshot with the lock bit set.
\* It acquires when it stores, and the attempt fails when it does not.
LockCAS(a) ==
    /\ apc[a] = "lockLoaded"
    /\ ~isLocked(snap[a])
    /\ CompareExchange(a, ActiveTaskStatus(getInnermostRecord(snap[a]),
                                          isCancelled(snap[a]), TRUE))
    /\ apc' = [apc EXCEPT ![a] = IF Status = snap[a] THEN "holding" ELSE "idle"]
    /\ UNCHANGED <<raised, released>>
    /\ UNCHANGED otherThanLock

\* The holder starts to change the record list.
MutateBegin(a) ==
    /\ apc[a] = "holding"
    /\ apc' = [apc EXCEPT ![a] = "mutating"]
    /\ UNCHANGED <<Status, snap, raised, released>>
    /\ UNCHANGED otherThanLock

\* The holder installs the new innermost record (a push or a pop) by a
\* compare-and-swap loop, taken at the iteration that stores; the two flag
\* bits of the word are carried over.
MutateEnd(a, r) ==
    /\ apc[a] = "mutating"
    /\ Status' = ActiveTaskStatus(r, isCancelled(Status), isLocked(Status))
    /\ apc' = [apc EXCEPT ![a] = "holding"]
    /\ UNCHANGED <<snap, raised, released>>
    /\ UNCHANGED otherThanLock

\* The holder starts to release the lock.
UnlockLoad(a) ==
    /\ apc[a] = "holding"
    /\ Load(a, "unlockLoaded")
    /\ UNCHANGED <<Status, raised, released>>
    /\ UNCHANGED otherThanLock

\* CAS that clears the lock bit and keeps the rest of the word it expects;
\* retried on failure with the value the failure returned.
UnlockCAS(a) ==
    /\ apc[a] = "unlockLoaded"
    /\ CompareExchange(a, ActiveTaskStatus(getInnermostRecord(snap[a]),
                                          isCancelled(snap[a]), FALSE))
    /\ apc' = [apc EXCEPT ![a] = IF Status = snap[a] THEN "idle" ELSE "unlockLoaded"]
    /\ released' = (released \/ (Status = snap[a] /\ raised))
    /\ UNCHANGED raised
    /\ UNCHANGED otherThanLock

\* An actor that does not hold the lock starts to cancel the task.
CancelLoad(a) ==
    /\ apc[a] = "idle"
    /\ Load(a, "cancelLoaded")
    /\ UNCHANGED <<Status, raised, released>>
    /\ UNCHANGED otherThanLock

\* The task is cancelled already: nothing to do.
CancelDone(a) ==
    /\ apc[a] = "cancelLoaded"
    /\ isCancelled(snap[a])
    /\ apc' = [apc EXCEPT ![a] = "idle"]
    /\ snap' = [snap EXCEPT ![a] = 0]
    /\ UNCHANGED <<Status, raised, released>>
    /\ UNCHANGED otherThanLock

\* CAS that sets the cancelled bit whether or not the word is locked;
\* retried on failure.
CancelCAS(a) ==
    /\ apc[a] = "cancelLoaded"
    /\ ~isCancelled(snap[a])
    /\ CompareExchange(a, ActiveTaskStatus(getInnermostRecord(snap[a]),
                                          TRUE, isLocked(snap[a])))
    /\ apc' = [apc EXCEPT ![a] = IF Status = snap[a] THEN "idle" ELSE "cancelLoaded"]
    /\ raised' = (raised \/ (Status = snap[a] /\ Holders # {}))
    /\ UNCHANGED released
    /\ UNCHANGED otherThanLock

NextLock ==
    \/ \E a \in Actors : LockLoad(a)
    \/ \E a \in Actors : LockBusy(a)
    \/ \E a \in Actors : LockCAS(a)
    \/ \E a \in Actors : MutateBegin(a)
    \/ \E a \in Actors, r \in LockRecordAddrs \cup {NULL} : MutateEnd(a, r)
    \/ \E a \in Actors : UnlockLoad(a)
    \/ \E a \in Actors : UnlockCAS(a)
    \/ \E a \in Actors : CancelLoad(a)
    \/ \E a \in Actors : CancelDone(a)
    \/ \E a \in Actors : CancelCAS(a)

\* sizeof(void*) on the platforms of the model, in bytes.
PointerSizes == {4, 8}

(***************************************************************************)
(* Layout.  A struct is a sequence of members [size, align] in declaration *)
(* order, base classes first; all sizes are in bytes.                      *)
(***************************************************************************)
RoundUp(n, a) == ((n + a - 1) \div a) * a

\* The end of member i, counted from the start of the struct.
RECURSIVE EndOf(_, _)
EndOf(ms, i) ==
    IF i = 0 THEN 0 ELSE RoundUp(EndOf(ms, i - 1), ms[i].align) + ms[i].size

OffsetOf(ms, i) == RoundUp(EndOf(ms, i - 1), ms[i].align)

SizeOf(ms, align) == RoundUp(EndOf(ms, Len(ms)), align)

\* The strictest alignment among the members.
MaxAlign(ms) ==
    CHOOSE a \in { ms[i].align : i \in DOMAIN ms } :
        \A i \in DOMAIN ms : ms[i].align <= a

Member(size, align) == [size |-> size, align |-> align]

\* class ActiveTaskStatus { uintptr_t Value; }
ActiveTaskStatusMembers(p) == << Member(p, p) >>
SizeofActiveTaskStatus(p) ==
    SizeOf(ActiveTaskStatusMembers(p), MaxAlign(ActiveTaskStatusMembers(p)))

\* A mutant of the Job's members: a third scheduler-private slot.
JobMembersThreeSlots(p) ==
    << Member(3 * p, p), Member(p, p), Member(p, p) >>

\* class alignas(2 * alignof(void*)) Job: SchedulerPrivate[2], Flags, and
\* the union of RunJob and ResumeTask.
JobMembers(p) ==
    << Member(2 * p, p), Member(p, p), Member(p, p) >>

\* alignas(2 * alignof(void*)) can only raise the alignment.
AlignofJob(p) ==
    IF 2 * p > MaxAlign(JobMembers(p)) THEN 2 * p ELSE MaxAlign(JobMembers(p))

SizeofJob(p) == SizeOf(JobMembers(p), AlignofJob(p))

\* The HeapObject header, in pointer widths: the metadata pointer and the
\* reference counts.  HeapObject is declared in swift/ABI/HeapObject.h; with
\* the members below, static_assert(sizeof(AsyncTask) == 12 * sizeof(void*))
\* holds only if the header and its padding take 2 pointer widths.
HeapObjectWords == 2

\* class AsyncTask : public HeapObject, public Job, then ResumeContext,
\* Status and AllocatorPrivate[4].
AsyncTaskMembers(p) ==
    << Member(HeapObjectWords * p, p),
       Member(SizeofJob(p), AlignofJob(p)),
       Member(p, p),
       Member(SizeofActiveTaskStatus(p), p),
       Member(4 * p, p) >>

AlignofAsyncTask(p) == MaxAlign(AsyncTaskMembers(p))

SizeofAsyncTask(p) == SizeOf(AsyncTaskMembers(p), AlignofAsyncTask(p))

\* A mutant of the Job's place: the Job is taken to be the first base.
OffsetOfJobZero(p) == 0

\* Where the Job base sits in an AsyncTask.
OffsetOfJob(p) == OffsetOf(AsyncTaskMembers(p), 2)

\* class ChildFragment { AsyncTask *Parent; AsyncTask *NextChild; }
SizeofChildFragment(p) == SizeOf(<< Member(p, p), Member(p, p) >>, p)

\* The room an object takes: a task and the fragment behind it.
SlotSize(p) == RoundUp(SizeofAsyncTask(p) + SizeofChildFragment(p), AlignofAsyncTask(p))

\* The layout is fixed at compile time: what the compiler computes once for
\* each platform.
Compiled ==
    [p \in PointerSizes |->
        [sizeofAsyncTask |-> SizeofAsyncTask(p),
         offsetOfJob |-> OffsetOfJob(p),
         slotSize |-> SlotSize(p)]]

(***************************************************************************)
(* SpecTask: Jobs and AsyncTasks are constructed and run, and child        *)
(* fragments are placed behind child tasks.                                *)
(***************************************************************************)
\* The executors of ExecutorRefs; NULL is noPreference().
Executors == {NULL, 1}

\* The functions a function pointer can point to, and the contexts.
Functions == {1, 2}
Contexts == {1, 2}

JobFlagsSet == [isAsyncTask : BOOLEAN, isChildTask : BOOLEAN]

\* The addresses objects are allocated at.
ObjectAddrs(p) == { k * Compiled[p].slotSize : k \in 1 .. MaxObjects }

Tasks == { x \in DOMAIN objs : objs[x].class = "AsyncTask" }

InitTask ==
    /\ ptrSize \in PointerSizes
    /\ objs = << >>
    /\ frags = << >>
    /\ fragOf = << >>
    /\ attempt = << >>
    /\ ran = << >>
    /\ calls = << >>
    /\ aborted = "no"

IdleTask ==
    /\ ptrSize = 0
    /\ objs = << >>
    /\ frags = << >>
    /\ fragOf = << >>
    /\ attempt = << >>
    /\ ran = << >>
    /\ calls = << >>
    /\ aborted = "idle"

\* f extended by x |-> v.
Put(f, x, v) == [y \in DOMAIN f \cup {x} |-> IF y = x THEN v ELSE f[y]]

\* JobFlags::isAsyncTask()
isAsyncTask(flags) == flags.isAsyncTask

\* A mutant of the first constructor: its assertion is missing.
JobInvokeAssertMissing(flags) == TRUE

\* Job(JobFlags flags, JobInvokeFunction *invoke): what its assertion wants.
JobInvokeAssert(flags) == ~isAsyncTask(flags)

\* Job(JobFlags flags, TaskContinuationFunction *invoke): what its assertion wants.
JobResumeAssert(flags) == isAsyncTask(flags)

\* static_cast<Job*>(task)
JobOfTask(t) == t + Compiled[ptrSize].offsetOfJob

\* static_cast<AsyncTask*>(job), the cast dyn_cast makes once classof agrees
TaskOfJob(j) == j - Compiled[ptrSize].offsetOfJob

\* A Job that is no task is constructed at address a.
ConstructJob(a, flags, invoke) ==
    /\ aborted = "no"
    /\ a \in ObjectAddrs(ptrSize) \ DOMAIN objs
    /\ attempt' = [class |-> "Job", addr |-> a, flags |-> flags]
    /\ IF JobInvokeAssert(flags)
       THEN /\ objs' = Put(objs, a, [class |-> "Job", Flags |-> flags,
                                     fn |-> [kind |-> "RunJob", f |-> invoke],
                                     job |-> a])
            /\ UNCHANGED aborted
       ELSE /\ aborted' = "wrong constructor for a task"
            /\ UNCHANGED objs
    /\ UNCHANGED <<ptrSize, frags, fragOf, ran, calls>>
    /\ UNCHANGED otherThanTask

\* AsyncTask(metadata, flags, run, initialContext) at address t: the Job base
\* is constructed by Job(flags, run), then ResumeContext and Status, then
\* the body's assertion.  No other code constructs a Job with a
\* TaskContinuationFunction.
ConstructAsyncTask(t, flags, run, initialContext) ==
    /\ aborted = "no"
    /\ t \in ObjectAddrs(ptrSize) \ DOMAIN objs
    /\ attempt' = [class |-> "AsyncTask", addr |-> t, flags |-> flags]
    /\ IF ~JobResumeAssert(flags)
       THEN /\ aborted' = "wrong constructor for a non-task job"
            /\ UNCHANGED objs
       ELSE IF ~isAsyncTask(flags)
       THEN /\ aborted' = "flags.isAsyncTask()"
            /\ UNCHANGED objs
       ELSE /\ objs' = Put(objs, t, [class |-> "AsyncTask", Flags |-> flags,
                                     fn |-> [kind |-> "ResumeTask", f |-> run],
                                     job |-> JobOfTask(t),
                                     ResumeContext |-> initialContext,
                                     Status |-> 0])
            /\ UNCHANGED aborted
    /\ UNCHANGED <<ptrSize, frags, fragOf, ran, calls>>
    /\ UNCHANGED otherThanTask

\* The object whose Job is at address j.
ObjectOfJob(j) ==
    IF j \in DOMAIN objs /\ objs[j].class = "Job" THEN j ELSE TaskOfJob(j)

\* AsyncTask::classof(const Job *job)
classof(j) == isAsyncTask(objs[ObjectOfJob(j)].Flags)

\* AsyncTask::run(currentExecutor): the call it makes.
AsyncTaskRun(t, currentExecutor) ==
    [fn |-> objs[t].fn, args |-> <<t, currentExecutor, objs[t].ResumeContext>>]

\* A mutant of Job::run: it always takes the RunJob path.
JobRunAlwaysRunJob(j, currentExecutor) ==
    [fn |-> [kind |-> "RunJob", f |-> objs[ObjectOfJob(j)].fn.f],
     args |-> <<j, currentExecutor>>]

\* Job::run(currentExecutor) on the Job at address j: the call it makes.
JobRun(j, currentExecutor) ==
    IF classof(j)
    THEN AsyncTaskRun(TaskOfJob(j), currentExecutor)
    ELSE [fn |-> objs[ObjectOfJob(j)].fn, args |-> <<j, currentExecutor>>]

\* The scheduler runs a Job it was given.
Run(j, currentExecutor) ==
    /\ aborted = "no"
    /\ j \in { objs[x].job : x \in DOMAIN objs }
    /\ ran' = [job |-> j, executor |-> currentExecutor]
    /\ calls' = << JobRun(j, currentExecutor) >>
    /\ UNCHANGED <<ptrSize, objs, frags, fragOf, attempt, aborted>>
    /\ UNCHANGED otherThanTask

\* AsyncTask::hasChildFragment()
hasChildFragment(t) == objs[t].Flags.isChildTask

\* A mutant of childFragment: the fragment is taken to start at the task.
childFragmentAtTask(t) == t

\* AsyncTask::childFragment(): reinterpret_cast<ChildFragment*>(this + 1)
childFragment(t) == t + 1 * Compiled[ptrSize].sizeofAsyncTask

\* ChildFragment(AsyncTask *parent) : Parent(parent), NextChild = nullptr
ChildFragment(parent) == [Parent |-> parent, NextChild |-> NULL]

getParent(c) == frags[c].Parent

getNextChild(c) == frags[c].NextChild

\* The code that creates a child task constructs its fragment at
\* childFragment(), which asserts hasChildFragment().
ConstructChildFragment(t, parent) ==
    /\ aborted = "no"
    /\ t \in Tasks \ DOMAIN fragOf
    /\ parent \in Tasks \ {t}
    /\ IF hasChildFragment(t)
       THEN /\ frags' = Put(frags, childFragment(t), ChildFragment(parent))
            /\ fragOf' = Put(fragOf, t, [at |-> childFragment(t), parent |-> parent])
            /\ UNCHANGED aborted
       ELSE /\ aborted' = "hasChildFragment()"
            /\ fragOf' = Put(fragOf, t, [at |-> NULL, parent |-> parent])
            /\ UNCHANGED frags
    /\ UNCHANGED <<ptrSize, objs, attempt, ran, calls>>
    /\ UNCHANGED otherThanTask

NextTask ==
    \/ \E a \in ObjectAddrs(ptrSize), flags \in JobFlagsSet, f \in Functions :
          ConstructJob(a, flags, f)
    \/ \E t \in ObjectAddrs(ptrSize), flags \in JobFlagsSet, f \in Functions,
          c \in Contexts : ConstructAsyncTask(t, flags, f, c)
    \/ \E x \in DOMAIN objs, e \in Executors : Run(objs[x].job, e)
    \/ \E t \in Tasks, parent \in Tasks : ConstructChildFragment(t, parent)

(***************************************************************************)
(* SpecContext: a chain of AsyncContext frames is built, one call inside   *)
(* the other, and then resumed frame by frame.                             *)
(***************************************************************************)
\* alignas(MaximumAlignment): the frames are this far apart.
MaximumAlignment == 16

FrameAddr(i) == i * MaximumAlignment

InitContext ==
    /\ frames = << >>
    /\ order = << >>
    /\ cur = NULL
    /\ resumed = << >>
    /\ cphase = "building"

IdleContext ==
    /\ frames = << >>
    /\ order = << >>
    /\ cur = NULL
    /\ resumed = << >>
    /\ cphase = "idle"

\* A mutant of the constructor: the parent is not stored.
AsyncContextDropsParent(flags, resumeParent, resumeParentExecutor, parent) ==
    [Parent |-> NULL, ResumeParent |-> resumeParent,
     ResumeParentExecutor |-> resumeParentExecutor, Flags |-> flags]

\* AsyncContext(flags, resumeParent, resumeParentExecutor, parent)
AsyncContext(flags, resumeParent, resumeParentExecutor, parent) ==
    [Parent |-> parent, ResumeParent |-> resumeParent,
     ResumeParentExecutor |-> resumeParentExecutor, Flags |-> flags]

\* The innermost frame, NULL when there is none.
Top == IF order = << >> THEN NULL ELSE order[Len(order)].at

\* A call is made: its frame is constructed with the caller's frame as parent.
ConstructContext(flags, resumeParent, resumeParentExecutor) ==
    /\ cphase = "building"
    /\ Len(order) < MaxFrames
    /\ LET at == FrameAddr(Len(order) + 1)
       IN  /\ frames' = Put(frames, at,
                  AsyncContext(flags, resumeParent, resumeParentExecutor, Top))
           /\ order' = Append(order, [at |-> at, resumeParent |-> resumeParent,
                                      executor |-> resumeParentExecutor])
    /\ UNCHANGED <<cur, resumed, cphase>>
    /\ UNCHANGED otherThanContext

\* The innermost call finishes: the chain starts to unwind.
StartResume ==
    /\ cphase = "building"
    /\ cur' = Top
    /\ cphase' = "resuming"
    /\ UNCHANGED <<frames, order, resumed>>
    /\ UNCHANGED otherThanContext

\* The work of frame cur is done: its ResumeParent is called on its
\* ResumeParentExecutor, and the parent frame is the current one.
Resume ==
    /\ cphase = "resuming"
    /\ cur \in DOMAIN frames
    /\ resumed' = Append(resumed, [frame |-> cur, fn |-> frames[cur].ResumeParent,
                                   executor |-> frames[cur].ResumeParentExecutor])
    /\ cur' = frames[cur].Parent
    /\ UNCHANGED <<frames, order, cphase>>
    /\ UNCHANGED otherThanContext

NextContext ==
    \/ \E f \in Functions, e \in Executors : ConstructContext("Ordinary", f, e)
    \/ StartResume
    \/ Resume

(***************************************************************************)
(* The specifications.                                                     *)
(***************************************************************************)
InitSpecStatus == InitStatus /\ IdleLock /\ IdleTask /\ IdleContext

SpecStatus == InitSpecStatus /\ [][NextStatus]_vars

InitSpecLock == IdleStatus /\ InitLock /\ IdleTask /\ IdleContext

SpecLock == InitSpecLock /\ [][NextLock]_vars

InitSpecTask == IdleStatus /\ IdleLock /\ InitTask /\ IdleContext

SpecTask == InitSpecTask /\ [][NextTask]_vars

InitSpecContext == IdleStatus /\ IdleLock /\ IdleTask /\ InitContext

SpecContext == InitSpecContext /\ [][NextContext]_vars

(***************************************************************************)
(* Properties of ActiveTaskStatus.                                         *)
(***************************************************************************)
\* C2: for every (record, cancelled, locked) whose record pointer has its two
\* lowest bits clear, the constructed status reads back as exactly that
\* triple, with cancelled in bit 0 and locked in bit 1 of the word.
BitPackRoundTrip ==
    (got # <<>> /\ arg.innermostRecord % 4 = 0) =>
        /\ got = <<arg.innermostRecord, arg.cancelled, arg.locked>>
        /\ (Value % 2 = 1) <=> arg.cancelled
        /\ ((Value \div 2) % 2 = 1) <=> arg.locked

BitPackRoundTripWitness ==
    /\ got # <<>>
    /\ arg.innermostRecord % 4 = 0
    /\ arg.innermostRecord # NULL
    /\ arg.cancelled
    /\ arg.locked

\* The records of h reachable from r through the parent links.
ReachableRecords(h, r) ==
    { x \in DOMAIN h : \E n \in 0 .. Cardinality(DOMAIN h) : Ancestor(h, r, n) = x }

\* C6: records() starts at the record the status was given, whatever its
\* flag bits, visits the records reachable through getStatusRecordParent in
\* innermost-to-outermost order, each once, and ends at null; with a null
\* innermost record it visits nothing.
RecordsVisitsChain ==
    spc \in {"iterating", "end"} =>
        /\ it \in DOMAIN heap \cup {NULL}
        /\ (seen = <<>> /\ spc = "iterating") => it = arg.innermostRecord
        /\ \A i \in 1 .. Len(seen) :
              /\ seen[i] # NULL
              /\ seen[i] = Ancestor(heap, arg.innermostRecord, i - 1)
        /\ \A i, j \in 1 .. Len(seen) : seen[i] = seen[j] => i = j
        /\ spc = "end" =>
              /\ { seen[i] : i \in 1 .. Len(seen) }
                    = ReachableRecords(heap, arg.innermostRecord)
              /\ arg.innermostRecord = NULL => seen = <<>>

RecordsVisitsChainWitness ==
    /\ spc = "end"
    /\ Len(seen) >= 2
    /\ arg.cancelled
    /\ arg.locked

\* C3: a cancellation raised while the lock is held is still there once the
\* holder has released the lock, under every interleaving.
UnlockKeepsCancellation ==
    (raised /\ released) => isCancelled(Status)

UnlockKeepsCancellationWitness ==
    /\ raised
    /\ released
    /\ ~isLocked(Status)
    /\ isCancelled(Status)

\* C4: the lock bit gives mutual exclusion: at most one actor holds the
\* lock, the word is locked for as long as it does, at most one actor is
\* changing the record list, and no actor acquires while another holds.
LockMutualExclusion ==
    /\ Cardinality(Holders) <= 1
    /\ Holders # {} => isLocked(Status)
    /\ Cardinality({ a \in Actors : apc[a] = "mutating" }) <= 1

\* One actor holds the lock and changes the list while another actor's
\* attempt has loaded the locked word and is about to fail.
LockMutualExclusionWitness ==
    \E a, b \in Actors :
        /\ a # b
        /\ apc[a] = "mutating"
        /\ apc[b] = "lockLoaded"
        /\ isLocked(snap[b])

(***************************************************************************)
(* Properties of Job, AsyncTask and ChildFragment.                         *)
(***************************************************************************)
\* The objects whose Job the scheduler knows by the address j.
ObjectsWithJob(j) == { x \in DOMAIN objs : objs[x].job = j }

\* C1: run on a Job whose is-task flag is set makes exactly one call, of the
\* stored ResumeTask with (the task, currentExecutor, the task's
\* ResumeContext); on a Job whose flag is clear it makes exactly one call,
\* of the stored RunJob with (the Job, currentExecutor).
RunDispatch ==
    ran # << >> =>
        \A x \in ObjectsWithJob(ran.job) :
            IF objs[x].Flags.isAsyncTask
            THEN /\ objs[x].fn.kind = "ResumeTask"
                 /\ calls = << [fn |-> objs[x].fn,
                                args |-> <<x, ran.executor, objs[x].ResumeContext>>] >>
            ELSE /\ objs[x].fn.kind = "RunJob"
                 /\ calls = << [fn |-> objs[x].fn, args |-> <<x, ran.executor>>] >>

\* A task was run through its Job while a plain Job exists beside it.
RunDispatchWitness ==
    /\ ran # << >>
    /\ \E x \in Tasks : objs[x].job = ran.job
    /\ \E y \in DOMAIN objs : objs[y].class = "Job"
    /\ Len(calls) = 1
    /\ Len(calls[1].args) = 3

\* C5: a constructor call whose function kind does not match the is-task
\* flag ends in its assertion, in both directions, and constructs nothing;
\* so every constructed Job holds a RunJob exactly when its is-task flag is
\* clear, and every constructed AsyncTask has the flag set.
ConstructorsAssert ==
    /\ \A x \in DOMAIN objs :
          /\ (objs[x].fn.kind = "RunJob") <=> ~objs[x].Flags.isAsyncTask
          /\ objs[x].class = "AsyncTask" => objs[x].Flags.isAsyncTask
    /\ attempt # << >> =>
          LET wantsTask == (attempt.class = "AsyncTask")
          IN  IF attempt.flags.isAsyncTask = wantsTask
              THEN attempt.addr \in DOMAIN objs
              ELSE /\ attempt.addr \notin DOMAIN objs
                   /\ aborted = (IF wantsTask
                                 THEN "wrong constructor for a non-task job"
                                 ELSE "wrong constructor for a task")

\* The plain constructor was given flags that mark a task, and aborted.
ConstructorsAssertWitness ==
    /\ attempt # << >>
    /\ attempt.class = "Job"
    /\ attempt.flags.isAsyncTask
    /\ aborted = "wrong constructor for a task"
    /\ objs # << >>

\* C8: hasChildFragment() is the child-task flag; childFragment() on a task
\* without the flag ends in its assertion, and on a task with it returns the
\* task's address plus sizeof(AsyncTask), where the fragment's getParent()
\* is the parent it was constructed with and getNextChild() is null.
ChildFragmentPlacement ==
    /\ \A t \in Tasks : hasChildFragment(t) <=> objs[t].Flags.isChildTask
    /\ \A t \in DOMAIN fragOf :
          IF objs[t].Flags.isChildTask
          THEN /\ fragOf[t].at = t + 12 * ptrSize
               /\ fragOf[t].at \in DOMAIN frags
               /\ getParent(fragOf[t].at) = fragOf[t].parent
               /\ getNextChild(fragOf[t].at) = NULL
          ELSE aborted = "hasChildFragment()"

ChildFragmentPlacementWitness ==
    \E t \in DOMAIN fragOf :
        /\ objs[t].Flags.isChildTask
        /\ fragOf[t].at \in DOMAIN frags
        /\ getParent(fragOf[t].at) \in Tasks

\* C9: a Job takes 4 pointer widths aligned to 2, an AsyncTask 12 pointer
\* widths aligned to 2, and an ActiveTaskStatus 1 pointer width.
LayoutSizes ==
    ptrSize \in PointerSizes =>
        /\ SizeofJob(ptrSize) = 4 * ptrSize
        /\ AlignofJob(ptrSize) = 2 * ptrSize
        /\ SizeofAsyncTask(ptrSize) = 12 * ptrSize
        /\ AlignofAsyncTask(ptrSize) = 2 * ptrSize
        /\ SizeofActiveTaskStatus(ptrSize) = ptrSize
        /\ \A x \in DOMAIN objs : x % AlignofJob(ptrSize) = 0

\* Two objects of that layout were constructed on a 64-bit platform.
LayoutSizesWitness ==
    /\ ptrSize = 8
    /\ Tasks # {}
    /\ Cardinality(DOMAIN objs) = 2

\* C10 as stated: the Job of an AsyncTask is at the task's own address.
JobAtOffsetZero ==
    \A t \in Tasks : objs[t].job = t

\* C10 as amended: the Job of an AsyncTask is its second base, behind the
\* HeapObject header: it sits 2 pointer widths into the task, and run on it
\* finds the task again.
JobBehindHeapObject ==
    /\ \A t \in Tasks : objs[t].job = t + 2 * ptrSize
    /\ (ran # << >> /\ Len(calls[1].args) = 3) =>
          /\ calls[1].args[1] \in Tasks
          /\ ran.job = calls[1].args[1] + 2 * ptrSize

JobBehindHeapObjectWitness ==
    /\ ran # << >>
    /\ Len(calls[1].args) = 3
    /\ calls[1].args[1] \in Tasks

(***************************************************************************)
(* Properties of the AsyncContext chain.                                   *)
(***************************************************************************)
\* C7: a chain of K frames, each constructed with the one before as its
\* Parent and the first with null, is at the root after exactly K
\* resumptions, which call each frame's ResumeParent once, innermost first.
ChainResumption ==
    cphase = "resuming" =>
        LET K == Len(order)
        IN  /\ Len(resumed) <= K
            /\ \A i \in 1 .. Len(resumed) :
                  /\ resumed[i].frame = order[K + 1 - i].at
                  /\ resumed[i].fn = order[K + 1 - i].resumeParent
                  /\ resumed[i].executor = order[K + 1 - i].executor
            /\ (cur = NULL) <=> (Len(resumed) = K)
            /\ cur # NULL => cur \in DOMAIN frames

ChainResumptionWitness ==
    /\ cphase = "resuming"
    /\ Len(order) = 3
    /\ Len(resumed) = 3
    /\ cur = NULL

=============================================================================
